---------------------------- MODULE Spec2Model ----------------------------
(***************************************************************************)
(* Camera position calculator of the drone data parser                     *)
(* (src/CameraPosCalculator.py): the two parsers with their day-boundary   *)
(* unwrap, the linear-scan interpolation, and the correlation run.         *)
(*                                                                         *)
(* Python floats are modelled as exact rationals <<n, d>> in lowest terms  *)
(* with d > 0, so equality of two values is equality of the pairs.         *)
(* Rounding of binary floating point is modelled only where the formulas   *)
(* of the two scripts are compared (the legacy script CameraPos2023 of     *)
(* src/CameraPosSept2023.py), on floats of Mantissa significant bits.      *)
(***************************************************************************)
EXTENDS Integers, Sequences, FiniteSets, TLC

VARIABLES
    call,                 \* a direct call of one function: its name and arguments
    result,               \* what that call returned or raised
    image_files,          \* the directory listing of image files (char sequences)
    pos_file,             \* the .pos file: File(rows), or NoFile
    mrk_file,             \* the .MRK file: File(rows), or NoFile
    pc,                   \* position in camera_position_calculator
    valid_image_files,    \* files whose id was extracted
    image_ids_from_files, \* their ids, index-aligned
    invalid_files,        \* files whose id could not be extracted
    rinex_data,           \* what process_rinex_data returned
    image_times,          \* what process_timestamp_data returned (times)
    image_ids,            \*   (ids)
    offsets,              \*   (offset triples)
    idx,                  \* loop index i of the correlation loop (0-based)
    output_data,          \* rows [image_file, east, north, elev]
    matched_count,
    unmatched_images,     \* pairs (image_file, image_id)
    ret,                  \* return value of the run, or the exception that left it
    written,              \* the outcome of writing Camera_coords.txt
    calls                 \* how often each of the three functions was called

vars == <<call, result, image_files, pos_file, mrk_file, pc, valid_image_files,
          image_ids_from_files, invalid_files, rinex_data, image_times,
          image_ids, offsets, idx, output_data, matched_count,
          unmatched_images, ret, written, calls>>

runVars == <<image_files, pos_file, mrk_file, pc, valid_image_files,
             image_ids_from_files, invalid_files, rinex_data, image_times,
             image_ids, offsets, idx, output_data, matched_count,
             unmatched_images, ret, written, calls>>

-----------------------------------------------------------------------------
(* Bounds of the model *)

MaxLen == 3        \* longest hour sequence handed to an unwrap loop directly
MaxSamples == 4    \* longest trajectory handed to interpolate_coordinates directly
MaxRows == 3       \* longest .pos file of a run
MaxEntries == 2    \* longest .MRK file of a run
MaxImages == 2     \* most image files of a run

-----------------------------------------------------------------------------
(* Float arithmetic, as exact rationals *)

RECURSIVE GCD(_, _)
GCD(a, b) == IF b = 0 THEN a ELSE GCD(b, a % b)

Abs(n) == IF n < 0 THEN -n ELSE n

\* the rational n/d (d # 0) in lowest terms with a positive denominator
Rat(n, d) ==
    LET g == GCD(Abs(n), Abs(d))
        s == IF d < 0 THEN -1 ELSE 1
    IN  <<(s * n) \div g, (s * d) \div g>>

R(n) == <<n, 1>>

RAdd(x, y) == Rat(x[1] * y[2] + y[1] * x[2], x[2] * y[2])
RSub(x, y) == Rat(x[1] * y[2] - y[1] * x[2], x[2] * y[2])
RMul(x, y) == Rat(x[1] * y[1], x[2] * y[2])
\* x / y for y # 0 (Python raises ZeroDivisionError for y = 0)
RDiv(x, y) == Rat(x[1] * y[2], x[2] * y[1])
RLt(x, y) == x[1] * y[2] < y[1] * x[2]
RLe(x, y) == x[1] * y[2] <= y[1] * x[2]

\* Python int(x) of a float: truncation toward zero
PyInt(x) == IF x[1] >= 0 THEN x[1] \div x[2] ELSE -((-x[1]) \div x[2])

Day == 24          \* the 24.0 added at a day boundary

-----------------------------------------------------------------------------
(* Day-boundary unwrap of the two parsers *)

\* a trajectory row is <<total_seconds, hours_decimal, east, north, elevation>>;
\* TLA+ sequences are 1-based, so Python's row[1] is row[2] here
HOURS == 2
EAST == 3
NORTH == 4
ELEV == 5

\* a faulty test that takes a strict decrease only for a rollover
RinexDropsStrict(rows) ==
    {t \in 2..Len(rows) :
        RLt(RSub(rows[t][HOURS], rows[t - 1][HOURS]), R(0))}

\* the indices t (1-based, t >= 2) at which the rinex loop's test fires
RinexDrops(rows) ==
    {t \in 2..Len(rows) :
        RLe(RSub(rows[t][HOURS], rows[t - 1][HOURS]), R(0))}

Min(S) == CHOOSE m \in S : \A x \in S : m <= x

\* one row with its hours replaced
WithHours(row, h) == [row EXCEPT ![HOURS] = h]

\* a faulty unwrap that corrects the row at the boundary alone
UnwrapRinexOnlyAt(rows, t) ==
    [i \in 1..Len(rows) |->
        IF i = t THEN WithHours(rows[i], RAdd(rows[i][HOURS], R(Day)))
        ELSE rows[i]]

\* lines 87-94: at the first t with current_time - past_time <= 0, add 24.0 to
\* the hours of rows t.. and stop
UnwrapRinexFrom(rows, t) ==
    [i \in 1..Len(rows) |->
        IF i >= t THEN WithHours(rows[i], RAdd(rows[i][HOURS], R(Day)))
        ELSE rows[i]]

UnwrapRinex(rows) ==
    IF RinexDrops(rows) = {} THEN rows
    ELSE UnwrapRinexFrom(rows, Min(RinexDrops(rows)))

\* the indices at which the timestamp loop's test fires
TimeDrops(times) ==
    {t \in 2..Len(times) : RLt(RSub(times[t], times[t - 1]), R(0))}

\* lines 139-144: at the first t with image_times[t] - image_times[t-1] < 0,
\* add 24 to every time from t on and stop
UnwrapTimesFrom(times, t) ==
    [i \in 1..Len(times) |->
        IF i >= t THEN RAdd(times[i], R(Day)) ELSE times[i]]

UnwrapTimes(times) ==
    IF TimeDrops(times) = {} THEN times
    ELSE UnwrapTimesFrom(times, Min(TimeDrops(times)))

-----------------------------------------------------------------------------
(* File contents *)

\* a field of a file as text: a number, or text that is no number
Tok(n) == [num |-> TRUE, v |-> n]
BadTok == [num |-> FALSE, v |-> 0]

\* a cell of a pandas column, as the code reads it with iloc: a float, or a
\* str when the column holds a field that is no number (dtype object)
Num(x) == [s |-> FALSE, v |-> x]
Str(tok) == [s |-> TRUE, v |-> R(tok.v)]

\* a file of the directory with its rows, or the absence of such a file
File(rows) == [exists |-> TRUE, rows |-> rows]
NoFile == [exists |-> FALSE, rows |-> <<>>]

\* a column read by pd.read_csv: floats when every field of the column is a
\* number, and otherwise the text of every field
Column(rows, f) ==
    IF \A k \in 1..Len(rows) : rows[k][f].num
    THEN [k \in 1..Len(rows) |-> Num(R(rows[k][f].v))]
    ELSE [k \in 1..Len(rows) |-> Str(rows[k][f])]

-----------------------------------------------------------------------------
(* process_rinex_data *)

\* lines 72-75: the HH:MM:SS field split on ':' gives three floats, or the row
\* raises (a part that is no number, or not exactly three parts)
HmsOk(row) == Len(row.hms) = 3 /\ \A k \in 1..3 : row.hms[k].num

\* lines 76-77
TotalSeconds(row) ==
    RAdd(RAdd(RMul(R(row.hms[1].v), R(3600)), RMul(R(row.hms[2].v), R(60))),
         R(row.hms[3].v))

HoursDecimal(row) == RDiv(TotalSeconds(row), R(3600))

\* lines 71-85: the rows before the unwrap
RinexProcessed(rows) ==
    LET east == Column(rows, "east")
        north == Column(rows, "north")
        elev == Column(rows, "elev")
    IN  [k \in 1..Len(rows) |->
            <<TotalSeconds(rows[k]), HoursDecimal(rows[k]),
              east[k], north[k], elev[k]>>]

\* a faulty parser that keeps the rows read before the one that raises
ProcessRinexPartial(rows) ==
    LET bad == {k \in 1..Len(rows) : ~HmsOk(rows[k])}
    IN  IF bad = {} THEN UnwrapRinex(RinexProcessed(rows))
        ELSE UnwrapRinex(RinexProcessed(SubSeq(rows, 1, Min(bad) - 1)))

\* lines 66-99: any exception makes the parser return []
process_rinex_data(rows) ==
    IF \E k \in 1..Len(rows) : ~HmsOk(rows[k]) THEN <<>>
    ELSE UnwrapRinex(RinexProcessed(rows))

-----------------------------------------------------------------------------
(* process_timestamp_data *)

\* a faulty conversion that leaves the hours of the week as they are
ImageTimeOfWeek(seconds) == RDiv(seconds, R(3600))

\* line 125: seconds of the log reduced to a time of day in hours
ImageTime(seconds) ==
    LET h == RDiv(seconds, R(3600))
    IN  RSub(h, RMul(R(PyInt(RDiv(h, R(Day)))), R(Day)))

\* a faulty wiring that reads east from column 3 and north from column 4
OffsetOfSwapped(row) == <<R(row.col3.v), R(row.col4.v), R(row.col5.v)>>

\* lines 129-137: [east, north, elev] from columns 4, 3 and 5
OffsetOf(row) == <<R(row.col4.v), R(row.col3.v), R(row.col5.v)>>

\* a row raises when its seconds cannot be divided (a str column) or the first
\* comma token of an offset column is no number
MrkRowOk(row) == row.col1.num /\ row.col3.num /\ row.col4.num /\ row.col5.num

\* lines 112-149: (image_times, image_ids, offsets), or three empty lists on
\* any exception
process_timestamp_data(rows) ==
    IF \E k \in 1..Len(rows) : ~MrkRowOk(rows[k]) THEN <<<<>>, <<>>, <<>>>>
    ELSE <<UnwrapTimes([k \in 1..Len(rows) |-> ImageTime(R(rows[k].col1.v))]),
           Column(rows, "col0"),
           [k \in 1..Len(rows) |-> OffsetOf(rows[k])]>>

-----------------------------------------------------------------------------
(* interpolate_coordinates *)

\* a faulty interior test that takes in the time of the upper sample
InteriorUpToUpper(hour, rows, i) ==
    RLt(rows[i][HOURS], hour) /\ RLe(hour, rows[i + 1][HOURS])

\* line 170, for the pair (i-1, i) of the Python loop, i = 1..len-1, which is
\* the pair of rows (i, i+1) here
Interior(hour, rows, i) ==
    RLt(rows[i][HOURS], hour) /\ RLt(hour, rows[i + 1][HOURS])

\* a faulty boundary test that compares the upper sample of the pair
ExactMatchUpper(hour, rows, i) == rows[i + 1][HOURS] = hour

\* line 186
ExactMatch(hour, rows, i) == rows[i][HOURS] = hour

\* a faulty offset that adds the elevation offset like the other two
ApplyOffsetAllAdded(pos, offset) ==
    <<RAdd(pos[1], RDiv(offset[1], R(1000))),
      RAdd(pos[2], RDiv(offset[2], R(1000))),
      RAdd(pos[3], RDiv(offset[3], R(1000)))>>

\* lines 181-183 and 188-190: mm offsets over 1000.0, east and north added,
\* elevation subtracted
ApplyOffset(pos, offset) ==
    <<RAdd(pos[1], RDiv(offset[1], R(1000))),
      RAdd(pos[2], RDiv(offset[2], R(1000))),
      RSub(pos[3], RDiv(offset[3], R(1000)))>>

\* lines 172-178: a + (b - a) * weight
Blend(a, b, weight) == RAdd(a, RMul(RSub(b, a), weight))

\* a faulty weight measured from the upper sample
WeightFromUpper(hour, rows, i) ==
    RDiv(RSub(rows[i + 1][HOURS], hour),
         RSub(rows[i + 1][HOURS], rows[i][HOURS]))

Weight(hour, rows, i) ==
    RDiv(RSub(hour, rows[i][HOURS]), RSub(rows[i + 1][HOURS], rows[i][HOURS]))

InteriorPos(hour, rows, i) ==
    LET w == Weight(hour, rows, i)
    IN  <<Blend(rows[i][EAST].v, rows[i + 1][EAST].v, w),
          Blend(rows[i][NORTH].v, rows[i + 1][NORTH].v, w),
          Blend(rows[i][ELEV].v, rows[i + 1][ELEV].v, w)>>

\* a faulty exact match that takes the upper sample of the pair
ExactPosUpper(rows, i) ==
    <<rows[i + 1][EAST].v, rows[i + 1][NORTH].v, rows[i + 1][ELEV].v>>

ExactPos(rows, i) == <<rows[i][EAST].v, rows[i][NORTH].v, rows[i][ELEV].v>>

\* arithmetic on a str cell raises TypeError
StrRow(row) == row[EAST].s \/ row[NORTH].s \/ row[ELEV].s

Returned(pos) == [kind |-> "ok", pos |-> pos]
Raised(e) == [kind |-> e, pos |-> <<>>]

\* the body of the loop for the first pair that takes a branch
AtPair(hour, rows, i, offset) ==
    IF StrRow(rows[i]) THEN Raised("TypeError")
    ELSE IF Interior(hour, rows, i)
         THEN Returned(ApplyOffset(InteriorPos(hour, rows, i), offset))
         ELSE Returned(ApplyOffset(ExactPos(rows, i), offset))

\* a faulty scan without the branch of the exact match
MatchingInterior(hour, rows) ==
    {i \in 1..(Len(rows) - 1) : Interior(hour, rows, i)}

\* the pairs at which the scan would return
Matching(hour, rows) ==
    {i \in 1..(Len(rows) - 1) :
        Interior(hour, rows, i) \/ ExactMatch(hour, rows, i)}

\* a faulty scan that falls back to the last sample instead of raising
InterpolateClamped(hour, rows, offset) ==
    IF Matching(hour, rows) = {}
    THEN IF Len(rows) = 0 THEN Raised("ValueError")
         ELSE Returned(ApplyOffset(ExactPos(rows, Len(rows)), offset))
    ELSE AtPair(hour, rows, Min(Matching(hour, rows)), offset)

\* a faulty scan that answers from a single sample at the time of the query
InterpolateSingleSample(hour, rows, offset) ==
    IF Len(rows) = 1 /\ rows[1][HOURS] = hour
    THEN Returned(ApplyOffset(ExactPos(rows, 1), offset))
    ELSE IF Matching(hour, rows) = {} THEN Raised("ValueError")
    ELSE AtPair(hour, rows, Min(Matching(hour, rows)), offset)

\* lines 164-193
interpolate_coordinates(hour, rows, offset) ==
    IF Matching(hour, rows) = {} THEN Raised("ValueError")
    ELSE AtPair(hour, rows, Min(Matching(hour, rows)), offset)

-----------------------------------------------------------------------------
(* Inputs of the direct calls *)

\* all sequences over S of length at most n
SeqsUpTo(S, n) == UNION {[1..k -> S] : k \in 0..n}

NonDecreasing(hs) == \A i \in 2..Len(hs) : RLe(hs[i - 1], hs[i])
StrictlyIncreasing(hs) == \A i \in 2..Len(hs) : RLt(hs[i - 1], hs[i])

HoursOf(rows) == [k \in 1..Len(rows) |-> rows[k][HOURS]]

\* raw hours of day, all within [0, 24)
RawHours == {Rat(1, 2), R(1), R(23), Rat(47, 2)}

\* trajectory rows that carry the given hours, as lines 79-85 build them
RowsOfHours(hs) ==
    [k \in 1..Len(hs) |->
        <<RMul(hs[k], R(3600)), hs[k], Num(R(0)), Num(R(0)), Num(R(0))>>]

\* HH:MM:SS fields of the .pos rows
HmsTimes == {<<23, 0, 0>>, <<23, 30, 0>>, <<0, 30, 0>>, <<1, 30, 0>>}

\* a .pos file whose k-th row (counting from 0) lies at (10k, 20k, 30k)
PosRows(times) ==
    [k \in 1..Len(times) |->
        [hms |-> <<Tok(times[k][1]), Tok(times[k][2]), Tok(times[k][3])>>,
         east |-> Tok(10 * (k - 1)),
         north |-> Tok(20 * (k - 1)),
         elev |-> Tok(30 * (k - 1))]]

QueryHours ==
    {Rat(1, 2), R(1), R(23), Rat(93, 4), Rat(47, 2), R(24), Rat(49, 2), R(25),
     Rat(51, 2), R(26)}

ZeroOffset == <<R(0), R(0), R(0)>>
OffsetTriples == {ZeroOffset, <<R(1000), R(2000), R(3000)>>}

\* lines 366-392: the write was not reached; it was tried and raised (what
\* is on the disk is then not known); or it wrote these rows
NotWritten == [tried |-> FALSE, ok |-> FALSE, rows |-> <<>>]
WriteFailed == [tried |-> TRUE, ok |-> FALSE, rows |-> <<>>]
Written(rows) == [tried |-> TRUE, ok |-> TRUE, rows |-> rows]

\* no call of a parser or of interpolate_coordinates yet
NoCalls == [rinex |-> 0, mrk |-> 0, interp |-> 0]

\* the run is not started in a specification of direct calls
RunIdle ==
    /\ image_files = <<>>
    /\ pos_file = NoFile
    /\ mrk_file = NoFile
    /\ pc = "idle"
    /\ valid_image_files = <<>>
    /\ image_ids_from_files = <<>>
    /\ invalid_files = <<>>
    /\ rinex_data = <<>>
    /\ image_times = <<>>
    /\ image_ids = <<>>
    /\ offsets = <<>>
    /\ idx = 0
    /\ output_data = <<>>
    /\ matched_count = 0
    /\ unmatched_images = <<>>
    /\ ret = "none"
    /\ written = NotWritten
    /\ calls = NoCalls

-----------------------------------------------------------------------------
(* Direct calls of the two unwrap loops *)

InitUnwrap ==
    /\ call \in {[fn |-> "none", hours |-> hs] : hs \in SeqsUpTo(RawHours, MaxLen)}
    /\ result = <<>>
    /\ RunIdle

\* the loop of process_rinex_data on rows with these hours
CallUnwrapRinex ==
    /\ call.fn = "none"
    /\ call' = [call EXCEPT !.fn = "unwrap_rinex"]
    /\ result' = HoursOf(UnwrapRinex(RowsOfHours(call.hours)))
    /\ UNCHANGED runVars

\* the loop of process_timestamp_data on these times
CallUnwrapTimes ==
    /\ call.fn = "none"
    /\ call' = [call EXCEPT !.fn = "unwrap_times"]
    /\ result' = UnwrapTimes(call.hours)
    /\ UNCHANGED runVars

NextUnwrap == CallUnwrapRinex \/ CallUnwrapTimes

SpecUnwrap == InitUnwrap /\ [][NextUnwrap]_vars

-----------------------------------------------------------------------------
(* Direct calls of interpolate_coordinates on trajectories of the parser *)

InitInterp ==
    /\ call \in {[fn |-> "none", hour |-> h,
                  rows |-> process_rinex_data(PosRows(ts)), offset |-> o] :
                    h \in QueryHours, ts \in SeqsUpTo(HmsTimes, MaxSamples),
                    o \in OffsetTriples}
    /\ result = <<>>
    /\ RunIdle

CallInterpolate ==
    /\ call.fn = "none"
    /\ call' = [call EXCEPT !.fn = "interpolate"]
    /\ result' = interpolate_coordinates(call.hour, call.rows, call.offset)
    /\ UNCHANGED runVars

NextInterp == CallInterpolate

SpecInterp == InitInterp /\ [][NextInterp]_vars

-----------------------------------------------------------------------------
(* extract_image_id_from_filename; a filename is a sequence of characters *)

None == [some |-> FALSE, v |-> 0]
Some(n) == [some |-> TRUE, v |-> n]

Digits == <<"0", "1", "2", "3", "4", "5", "6", "7", "8", "9">>

IsDigit(c) == \E d \in 1..10 : Digits[d] = c
DigitValue(c) == (CHOOSE d \in 1..10 : Digits[d] = c) - 1

\* str.split(sep): the pieces between the separators, at least one piece
RECURSIVE Split(_, _)
Split(s, sep) ==
    IF \A k \in 1..Len(s) : s[k] # sep THEN <<s>>
    ELSE LET k == Min({j \in 1..Len(s) : s[j] = sep})
         IN  <<SubSeq(s, 1, k - 1)>> \o Split(SubSeq(s, k + 1, Len(s)), sep)

\* int(text) ignores blanks around the text
Strip(s) ==
    LET kept == {k \in 1..Len(s) : s[k] # " "}
    IN  IF kept = {} THEN <<>>
        ELSE SubSeq(s, Min(kept), CHOOSE k \in kept : \A j \in kept : j <= k)

\* int(text) accepts one sign before the digits
Signed(s) == Len(s) >= 1 /\ s[1] \in {"+", "-"}
Magnitude(s) == IF Signed(s) THEN Tail(s) ELSE s

\* int(text) succeeds on a non-empty run of digits, signed or not
\* (ValueError otherwise); a "_" between digits cannot reach it, the
\* filename being split on "_" first
IsIntText(s) ==
    LET m == Magnitude(Strip(s))
    IN  Len(m) >= 1 /\ \A k \in 1..Len(m) : IsDigit(m[k])

RECURSIVE DigitsValue(_)
DigitsValue(s) ==
    IF Len(s) = 0 THEN 0
    ELSE 10 * DigitsValue(SubSeq(s, 1, Len(s) - 1)) + DigitValue(s[Len(s)])

IntOfText(s) ==
    LET t == Strip(s)
    IN  IF Signed(t) /\ t[1] = "-" THEN 0 - DigitsValue(Tail(t))
        ELSE DigitsValue(Magnitude(t))

\* a faulty extraction that reads the token before the id
ExtractSecondToken(filename) ==
    LET parts == Split(filename, "_")
    IN  IF Len(parts) >= 2
        THEN LET id_part == Split(parts[2], ".")[1]
             IN  IF IsIntText(id_part) THEN Some(IntOfText(id_part)) ELSE None
        ELSE None

\* lines 46-53
extract_image_id_from_filename(filename) ==
    LET parts == Split(filename, "_")
    IN  IF Len(parts) >= 3
        THEN LET id_part == Split(parts[3], ".")[1]
             IN  IF IsIntText(id_part) THEN Some(IntOfText(id_part)) ELSE None
        ELSE None

-----------------------------------------------------------------------------
(* Direct calls of extract_image_id_from_filename *)

MaxTokens == 4

\* the pieces a filename is put together from, none holding a "_"
NameTokens ==
    {<<"D", "J", "I">>,
     <<"0", "0", "0", "1">>,
     <<"0", "0", "4", "2", ".", "J", "P", "G">>,
     <<"b", "a", "d", "n", "a", "m", "e", ".", "j", "p", "g">>,
     <<>>,
     <<"4", "a", ".", "j">>,
     <<" ", "-", "7", ".", "j">>}

\* sep.join(tokens)
RECURSIVE Join(_, _)
Join(tokens, sep) ==
    IF Len(tokens) = 0 THEN <<>>
    ELSE IF Len(tokens) = 1 THEN tokens[1]
    ELSE tokens[1] \o <<sep>> \o Join(Tail(tokens), sep)

InitExtract ==
    /\ call \in {[fn |-> "none", tokens |-> ts, filename |-> Join(ts, "_")] :
                    ts \in SeqsUpTo(NameTokens, MaxTokens)}
    /\ result = <<>>
    /\ RunIdle

CallExtract ==
    /\ call.fn = "none"
    /\ call' = [call EXCEPT !.fn = "extract"]
    /\ result' = extract_image_id_from_filename(call.filename)
    /\ UNCHANGED runVars

NextExtract == CallExtract

SpecExtract == InitExtract /\ [][NextExtract]_vars

-----------------------------------------------------------------------------
(* Inputs of a run *)

ImageNames ==
    {<<"D", "_", "0", "_", "1", ".", "j">>,
     <<"D", "_", "0", "_", "2", ".", "j">>,
     <<"b", "a", "d", ".", "j">>}

\* a directory listing holds each name once, in any order
Listings(n) ==
    {l \in SeqsUpTo(ImageNames, n) :
        \A i, j \in 1..Len(l) : i # j => l[i] # l[j]}

RunTimes == {<<23, 30, 0>>, <<0, 30, 0>>, <<1, 30, 0>>}

\* a .pos file with a field that is no number: the east of row 1, or the
\* minutes of the last row
BadEast(rows) == [rows EXCEPT ![1].east = BadTok]
BadHms(rows) == [rows EXCEPT ![Len(rows)].hms[2] = BadTok]

\* the times of day of a sequence of times go up
InTimeOrder(ts) ==
    \A k \in 2..Len(ts) :
        ts[k - 1][1] * 3600 + ts[k - 1][2] * 60 + ts[k - 1][3]
            < ts[k][1] * 3600 + ts[k][2] * 60 + ts[k][3]

\* the .pos files: rows at any times, and rows in time order with one bad
\* field; or no file
PosFiles(n) ==
    LET good == {PosRows(ts) : ts \in SeqsUpTo(RunTimes, n)}
        some == {PosRows(ts) :
                    ts \in {u \in SeqsUpTo(RunTimes, n) : Len(u) >= 1 /\ InTimeOrder(u)}}
    IN  {File(f) : f \in good \cup {BadEast(g) : g \in some}
                                    \cup {BadHms(g) : g \in some}}
            \cup {NoFile}

\* a row of the .MRK file: id, seconds, and the first comma token of the
\* north (3), east (4) and elevation (5) offset columns
MrkRow(id, seconds, north, east, elev) ==
    [col0 |-> Tok(id), col1 |-> Tok(seconds), col3 |-> Tok(north),
     col4 |-> Tok(east), col5 |-> Tok(elev)]

MrkRowKinds ==
    {MrkRow(1, 84600, 0, 0, 0), MrkRow(1, 3600, 2000, 1000, 3000),
     MrkRow(2, 3600, 0, 0, 0)}

\* a row whose elevation offset is no number
BadMrkRow == [MrkRow(2, 3600, 0, 0, 0) EXCEPT !.col5 = BadTok]

\* the .MRK files: good rows, and good rows followed by a last bad one; or
\* no file
MrkFiles(n) ==
    LET good == SeqsUpTo(MrkRowKinds, n)
    IN  {File(f) : f \in good \cup {Append(g, BadMrkRow) :
                                        g \in {u \in good : Len(u) < n}}}
            \cup {NoFile}


-----------------------------------------------------------------------------
(* Direct calls of process_rinex_data *)

\* the .pos files of the calls: those of a run, and files of up to
\* MaxSamples rows at the times of the direct calls
RinexInputs ==
    (PosFiles(MaxRows) \ {NoFile})
        \cup {File(PosRows(ts)) : ts \in SeqsUpTo(HmsTimes, MaxSamples)}

InitRinex ==
    /\ call \in {[fn |-> "none", file |-> f] : f \in RinexInputs}
    /\ result = <<>>
    /\ RunIdle

CallProcessRinex ==
    /\ call.fn = "none"
    /\ call' = [call EXCEPT !.fn = "process_rinex"]
    /\ result' = process_rinex_data(call.file.rows)
    /\ UNCHANGED runVars

NextRinex == CallProcessRinex

SpecRinex == InitRinex /\ [][NextRinex]_vars

-----------------------------------------------------------------------------
(* Direct evaluations of the time of line 125 *)

MaxTick == 60
NegTicks == 20

\* seconds of column 1, in steps of an hour and a half
SecondsValues == {5400 * k : k \in (0 - NegTicks)..MaxTick}

InitTime ==
    /\ call \in {[fn |-> "none", seconds |-> sec] : sec \in SecondsValues}
    /\ result = <<>>
    /\ RunIdle

CallImageTime ==
    /\ call.fn = "none"
    /\ call' = [call EXCEPT !.fn = "image_time"]
    /\ result' = ImageTime(R(call.seconds))
    /\ UNCHANGED runVars

NextTime == CallImageTime

SpecTime == InitTime /\ [][NextTime]_vars

-----------------------------------------------------------------------------
(* Binary floats: every operation of Python rounds its exact result to the *)
(* nearest float, ties to the even mantissa                                *)

Mantissa == 4      \* significant bits of a float (53 in the build)

\* 2^k as a rational
Pow2R(k) == IF k >= 0 THEN R(2 ^ k) ELSE Rat(1, 2 ^ (0 - k))

\* the e with 2^e <= n/d < 2^(e+1), for n, d > 0, counted from e
RECURSIVE Exponent(_, _, _)
Exponent(n, d, e) ==
    IF n >= 2 * d THEN Exponent(n, 2 * d, e + 1)
    ELSE IF n < d THEN Exponent(2 * n, d, e - 1)
    ELSE e

\* the integer nearest to n/d (n >= 0, d > 0), the even one of two
NearestEven(n, d) ==
    LET f == n \div d
        r == n % d
    IN  IF 2 * r > d \/ (2 * r = d /\ f % 2 = 1) THEN f + 1 ELSE f

\* x rounded to Mantissa significant bits
Fl(x) ==
    IF x[1] = 0 THEN x
    ELSE LET ulp == Pow2R(Exponent(Abs(x[1]), x[2], 0) - Mantissa + 1)
             q == RDiv(<<Abs(x[1]), x[2]>>, ulp)
             m == NearestEven(q[1], q[2])
         IN  RMul(R(IF x[1] < 0 THEN 0 - m ELSE m), ulp)

\* the result of one operation: as the floats give it, or in exact arithmetic
Round(mode, x) == IF mode = "float" THEN Fl(x) ELSE x

\* CameraPosCalculator.py lines 172-178, operation by operation
InteriorPosIn(mode, hour, rows, i) ==
    LET delta_time_total ==
            Round(mode, RSub(rows[i + 1][HOURS], rows[i][HOURS]))
        delta_time_partial == Round(mode, RSub(hour, rows[i][HOURS]))
        weight == Round(mode, RDiv(delta_time_partial, delta_time_total))
        coord(c) ==
            Round(mode, RAdd(rows[i][c].v,
                Round(mode, RMul(Round(mode, RSub(rows[i + 1][c].v,
                                                  rows[i][c].v)), weight))))
    IN  <<coord(EAST), coord(NORTH), coord(ELEV)>>

\* CameraPosCalculator.py lines 181-183 and 188-190, operation by operation
ApplyOffsetIn(mode, pos, offset) ==
    <<Round(mode, RAdd(pos[1], Round(mode, RDiv(offset[1], R(1000))))),
      Round(mode, RAdd(pos[2], Round(mode, RDiv(offset[2], R(1000))))),
      Round(mode, RSub(pos[3], Round(mode, RDiv(offset[3], R(1000)))))>>

\* CameraPosCalculator.py lines 164-193, operation by operation, on a
\* trajectory of floats
InterpolateIn(mode, hour, rows, offset) ==
    IF Matching(hour, rows) = {} THEN Raised("ValueError")
    ELSE LET i == Min(Matching(hour, rows))
         IN  IF Interior(hour, rows, i)
             THEN Returned(ApplyOffsetIn(mode,
                               InteriorPosIn(mode, hour, rows, i), offset))
             ELSE Returned(ApplyOffsetIn(mode, ExactPos(rows, i), offset))

-----------------------------------------------------------------------------
(* The legacy script CameraPos2023 (src/CameraPosSept2023.py): its loop    *)
(* over the capture entries and its output loop                            *)

MaxFixes == 3      \* longest trajectory of the legacy script
MaxPhotos == 2     \* longest capture log of the legacy script

\* line 102
LegacyInterior(Hour, Rinex, i) ==
    RLt(Rinex[i][HOURS], Hour) /\ RLt(Hour, Rinex[i + 1][HOURS])

\* a faulty boundary test that compares the upper sample of the pair
LegacyBoundaryUpper(mode, Hour, Rinex, i) ==
    Round(mode, RSub(Rinex[i + 1][HOURS], Hour)) = R(0)

\* line 122: Rinex[i - 1][1] - Hour == 0
LegacyBoundary(mode, Hour, Rinex, i) ==
    Round(mode, RSub(Rinex[i][HOURS], Hour)) = R(0)

\* lines 103-107, 111-112, 116-117: before + delta * delta_time2 / delta_time1,
\* the product taken first
LegacyInteriorPos(mode, Hour, Rinex, i) ==
    LET delta_time1 ==
            Round(mode, RSub(Rinex[i + 1][HOURS], Rinex[i][HOURS]))
        delta_time2 == Round(mode, RSub(Hour, Rinex[i][HOURS]))
        coord(c) ==
            LET delta == Round(mode, RSub(Rinex[i + 1][c].v, Rinex[i][c].v))
            IN  Round(mode, RAdd(Rinex[i][c].v,
                    Round(mode, RDiv(Round(mode, RMul(delta, delta_time2)),
                                     delta_time1))))
    IN  <<coord(EAST), coord(NORTH), coord(ELEV)>>

\* lines 108, 113, 118 and 123-125: offsets in mm over 1000, east and north
\* added, elevation subtracted
LegacyOffset(mode, pos, Offset) ==
    <<Round(mode, RAdd(pos[1], Round(mode, RDiv(Offset[1], R(1000))))),
      Round(mode, RAdd(pos[2], Round(mode, RDiv(Offset[2], R(1000))))),
      Round(mode, RSub(pos[3], Round(mode, RDiv(Offset[3], R(1000)))))>>

\* the pairs at which the scan of lines 99-126 appends and breaks
LegacyHits(mode, Hour, Rinex) ==
    {i \in 1..(Len(Rinex) - 1) :
        LegacyInterior(Hour, Rinex, i) \/ LegacyBoundary(mode, Hour, Rinex, i)}

NoPosition == [branch |-> "none", pair |-> 0, pos |-> <<>>]

\* lines 99-126 for one capture entry: the branch taken, its pair, and the
\* position appended; or nothing appended
LegacyScan(mode, Hour, Rinex, Offset) ==
    IF LegacyHits(mode, Hour, Rinex) = {} THEN NoPosition
    ELSE LET i == Min(LegacyHits(mode, Hour, Rinex))
         IN  IF LegacyInterior(Hour, Rinex, i)
             THEN [branch |-> "interior", pair |-> i,
                   pos |-> LegacyOffset(mode,
                               LegacyInteriorPos(mode, Hour, Rinex, i), Offset)]
             ELSE [branch |-> "exact", pair |-> i,
                   pos |-> LegacyOffset(mode,
                               <<Rinex[i][EAST].v, Rinex[i][NORTH].v,
                                 Rinex[i][ELEV].v>>, Offset)]

\* hours of day of the fixes, and the positions of the fixes in file order;
\* every value is a float of Mantissa bits, also after the 24.0 of the unwrap
FixHours == {R(0), R(2), R(6)}
FixPositions == <<<<0, 0, 0>>, <<10, 14, 3>>, <<3, 12, 9>>, <<9, 1, 13>>>>

\* lines 37-53: the trajectory of these hours, unwrapped
LegacyRinex(hs) ==
    UnwrapRinex([k \in 1..Len(hs) |->
        <<RMul(hs[k], R(3600)), hs[k], Num(R(FixPositions[k][1])),
          Num(R(FixPositions[k][2])), Num(R(FixPositions[k][3]))>>])

\* capture entries: the unwrapped time of lines 71-88 and the offsets of
\* lines 73-82
CaptureEntries ==
    {[time |-> R(h), offset |-> ZeroOffset] : h \in {1, 2, 7, 26}}
        \cup {[time |-> R(2), offset |-> <<R(1024), R(2048), R(3072)>>]}

NoOutput == [kind |-> "none", rows |-> <<>>]

\* after line 93: the three lists are empty, no capture entry is done
InitLegacy ==
    /\ call \in {[fn |-> "CameraPos2023", Rinex |-> LegacyRinex(hs),
                  ImageTime |-> [k \in 1..Len(es) |-> es[k].time],
                  Offset |-> [k \in 1..Len(es) |-> es[k].offset]] :
                    hs \in SeqsUpTo(FixHours, MaxFixes),
                    es \in SeqsUpTo(CaptureEntries, MaxPhotos)}
    /\ result = [j |-> 0, East |-> <<>>, North |-> <<>>, Elev |-> <<>>,
                 out |-> NoOutput]
    /\ RunIdle

\* lines 95-126, one pass of the loop over the capture entries
LegacyPhoto ==
    /\ result.out = NoOutput
    /\ result.j < Len(call.ImageTime)
    /\ LET j == result.j + 1
           scan == LegacyScan("float", call.ImageTime[j], call.Rinex,
                              call.Offset[j])
       IN  result' =
               IF scan.branch = "none" THEN [result EXCEPT !.j = j]
               ELSE [result EXCEPT !.j = j,
                                   !.East = Append(@, scan.pos[1]),
                                   !.North = Append(@, scan.pos[2]),
                                   !.Elev = Append(@, scan.pos[3])]
    /\ UNCHANGED <<call, runVars>>

\* lines 129-141 in a folder with one image per capture entry, in the order
\* of the log: row j reads East[j], North[j], Elev[j], and a read past the end
\* of a list leaves the script with an IndexError before anything is written
LegacyOutput ==
    /\ result.out = NoOutput
    /\ result.j = Len(call.ImageTime)
    /\ result' =
           [result EXCEPT !.out =
               IF Len(result.East) < Len(call.ImageTime)
               THEN [kind |-> "IndexError", rows |-> <<>>]
               ELSE [kind |-> "written",
                     rows |-> [j \in 1..Len(call.ImageTime) |->
                                 <<result.East[j], result.North[j],
                                   result.Elev[j]>>]]]
    /\ UNCHANGED <<call, runVars>>

NextLegacy == LegacyPhoto \/ LegacyOutput

SpecLegacy == InitLegacy /\ [][NextLegacy]_vars

-----------------------------------------------------------------------------
(* camera_position_calculator *)

Init ==
    /\ call = [fn |-> "run"]
    /\ result = <<>>
    /\ image_files \in Listings(MaxImages)
    /\ pos_file \in PosFiles(MaxRows)
    /\ mrk_file \in MrkFiles(MaxEntries)
    /\ pc = "ids"
    /\ valid_image_files = <<>>
    /\ image_ids_from_files = <<>>
    /\ invalid_files = <<>>
    /\ rinex_data = <<>>
    /\ image_times = <<>>
    /\ image_ids = <<>>
    /\ offsets = <<>>
    /\ idx = 0
    /\ output_data = <<>>
    /\ matched_count = 0
    /\ unmatched_images = <<>>
    /\ ret = "none"
    /\ written = NotWritten
    /\ calls = NoCalls

\* a faulty test that lets every file through, None standing for an id
TakesAnyId(f) == TRUE

\* line 242, and its else branch
HasId(f) == extract_image_id_from_filename(f).some
NoId(f) == ~HasId(f)

Return(value) == pc' = "done" /\ ret' = value

\* lines 222-263: no image file, or no file with an extractable id, ends the
\* run; otherwise the files are split into valid and invalid
ExtractIds ==
    /\ pc = "ids"
    /\ LET valid == SelectSeq(image_files, HasId)
       IN  /\ valid_image_files' = valid
           /\ image_ids_from_files' =
                [k \in 1..Len(valid) |-> extract_image_id_from_filename(valid[k]).v]
           /\ invalid_files' = SelectSeq(image_files, NoId)
           /\ IF valid = <<>> THEN Return("False")
              ELSE pc' = "rinex" /\ ret' = ret
    /\ UNCHANGED <<call, result, image_files, pos_file, mrk_file, calls, rinex_data,
                   image_times, image_ids, offsets, idx, output_data,
                   matched_count, unmatched_images, written>>

\* a faulty test that lets an empty trajectory through
RinexGateOpen(data) == pc' = "mrk" /\ ret' = ret

\* lines 286-288: if not rinex_data: return False
RinexGate(data) ==
    IF data = <<>> THEN Return("False") ELSE pc' = "mrk" /\ ret' = ret

\* lines 265-291
ProcessRinex ==
    /\ pc = "rinex"
    /\ IF pos_file = NoFile
       THEN Return("False") /\ rinex_data' = rinex_data /\ calls' = calls
       ELSE /\ rinex_data' = process_rinex_data(pos_file.rows)
            /\ calls' = [calls EXCEPT !.rinex = @ + 1]
            /\ RinexGate(rinex_data')
    /\ UNCHANGED <<call, result, image_files, pos_file, mrk_file,
                   valid_image_files, image_ids_from_files, invalid_files,
                   image_times, image_ids, offsets, idx, output_data,
                   matched_count, unmatched_images, written>>

\* lines 293-327
ProcessTimestamps ==
    /\ pc = "mrk"
    /\ IF mrk_file = NoFile
       THEN Return("False") /\ UNCHANGED <<image_times, image_ids, offsets, calls>>
       ELSE LET got == process_timestamp_data(mrk_file.rows)
            IN  /\ calls' = [calls EXCEPT !.mrk = @ + 1]
                /\ image_times' = got[1]
                /\ image_ids' = got[2]
                /\ offsets' = got[3]
                /\ IF got[1] = <<>> THEN Return("False")
                   ELSE pc' = "loop" /\ ret' = ret
    /\ UNCHANGED <<call, result, image_files, pos_file, mrk_file,
                   valid_image_files, image_ids_from_files, invalid_files,
                   rinex_data, idx, output_data, matched_count,
                   unmatched_images, written>>

\* list.index(image_id): the first position holding the id, 0 for ValueError
Occurrences(ids, image_id) ==
    {k \in 1..Len(ids) : ids[k] = Num(R(image_id))}

Max(S) == CHOOSE m \in S : \A x \in S : x <= m

\* a faulty lookup that takes the last occurrence of the id
IndexOfLast(ids, image_id) ==
    IF Occurrences(ids, image_id) = {} THEN 0
    ELSE Max(Occurrences(ids, image_id))

IndexOf(ids, image_id) ==
    IF Occurrences(ids, image_id) = {} THEN 0
    ELSE Min(Occurrences(ids, image_id))

\* lines 339-343 for one image id: the interpolation at its log entry
LookUp(image_id) ==
    LET timestamp_index == IndexOf(image_ids, image_id)
    IN  IF timestamp_index = 0 THEN Raised("ValueError")
        ELSE interpolate_coordinates(image_times[timestamp_index], rinex_data,
                                     offsets[timestamp_index])

\* a faulty collection of the rows, newest first
PrependRow(rows, row) == <<row>> \o rows

\* line 344: output_data.append
AppendRow(rows, row) == Append(rows, row)

\* line 348
UnmatchedEntry(image_file, image_id) == <<image_file, image_id>>

\* a faulty pass that takes the first entry off the capture log
TablesAfterImageConsumed ==
    /\ rinex_data' = rinex_data
    /\ image_times' = Tail(image_times)
    /\ image_ids' = Tail(image_ids)
    /\ offsets' = Tail(offsets)

\* lines 339-343, 152-193: index(), the subscripts and interpolate_coordinates
\* only read the four tables
TablesAfterImage == UNCHANGED <<rinex_data, image_times, image_ids, offsets>>

\* lines 329-348: one pass of the loop; ValueError is caught, any other
\* exception leaves the function
CorrelateImage ==
    /\ pc = "loop"
    /\ idx < Len(valid_image_files)
    /\ LET image_file == valid_image_files[idx + 1]
           image_id == image_ids_from_files[idx + 1]
           got == LookUp(image_id)
       IN  /\ output_data' =
                IF got.kind = "ok"
                THEN AppendRow(output_data,
                            <<image_file, got.pos[1], got.pos[2], got.pos[3]>>)
                ELSE output_data
           /\ matched_count' =
                IF got.kind = "ok" THEN matched_count + 1 ELSE matched_count
           /\ unmatched_images' =
                IF got.kind = "ValueError"
                THEN Append(unmatched_images, UnmatchedEntry(image_file, image_id))
                ELSE unmatched_images
           /\ IF got.kind \in {"ok", "ValueError"}
              THEN idx' = idx + 1 /\ pc' = pc /\ ret' = ret
              ELSE idx' = idx /\ Return(got.kind)
           /\ calls' = IF IndexOf(image_ids, image_id) = 0 THEN calls
                       ELSE [calls EXCEPT !.interp = @ + 1]
    /\ TablesAfterImage
    /\ UNCHANGED <<call, result, image_files, pos_file, mrk_file,
                   valid_image_files, image_ids_from_files, invalid_files,
                   written>>

\* a faulty end of the loop that goes on to the write without a row
EndLoopAlwaysWrites ==
    /\ pc = "loop"
    /\ idx = Len(valid_image_files)
    /\ pc' = "write" /\ ret' = ret
    /\ UNCHANGED <<call, result, image_files, pos_file, mrk_file, calls,
                   valid_image_files, image_ids_from_files, invalid_files,
                   rinex_data, image_times, image_ids, offsets, idx,
                   output_data, matched_count, unmatched_images, written>>

\* a faulty end of the loop that fails the run for an unmatched image
EndLoopStrict ==
    /\ pc = "loop"
    /\ idx = Len(valid_image_files)
    /\ IF output_data = <<>> \/ unmatched_images # <<>> THEN Return("False")
       ELSE pc' = "write" /\ ret' = ret
    /\ UNCHANGED <<call, result, image_files, pos_file, mrk_file, calls,
                   valid_image_files, image_ids_from_files, invalid_files,
                   rinex_data, image_times, image_ids, offsets, idx,
                   output_data, matched_count, unmatched_images, written>>

\* lines 350-364
EndLoop ==
    /\ pc = "loop"
    /\ idx = Len(valid_image_files)
    /\ IF output_data = <<>> THEN Return("False")
       ELSE pc' = "write" /\ ret' = ret
    /\ UNCHANGED <<call, result, image_files, pos_file, mrk_file, calls,
                   valid_image_files, image_ids_from_files, invalid_files,
                   rinex_data, image_times, image_ids, offsets, idx,
                   output_data, matched_count, unmatched_images, written>>

\* lines 366-392: the write succeeds, or raises and the run fails
WriteOutput ==
    /\ pc = "write"
    /\ \E ok \in BOOLEAN :
        IF ok THEN written' = Written(output_data) /\ Return("True")
        ELSE written' = WriteFailed /\ Return("False")
    /\ UNCHANGED <<call, result, image_files, pos_file, mrk_file, calls,
                   valid_image_files, image_ids_from_files, invalid_files,
                   rinex_data, image_times, image_ids, offsets, idx,
                   output_data, matched_count, unmatched_images>>

\* lines 395-428: the exit code of the process, 1 for False and for an
\* exception that left camera_position_calculator
ExitCode(value) == IF value = "True" THEN 0 ELSE 1

Next ==
    \/ ExtractIds
    \/ ProcessRinex
    \/ ProcessTimestamps
    \/ CorrelateImage
    \/ EndLoop
    \/ WriteOutput

Spec == Init /\ [][Next]_vars

-----------------------------------------------------------------------------
(* Properties of the unwrap loops (SpecUnwrap) *)

\* C2 as stated: after the rollover correction every adjacent pair of hours is
\* non-decreasing, whatever the input sequence.
UnwrapMonotone == call.fn # "none" => NonDecreasing(result)

\* C2 as amended: for raw hours within [0, 24) with at most one adjacent pair
\* at which the loop's test fires (hours[i] <= hours[i-1] for the trajectory,
\* hours[i] < hours[i-1] for the capture log), every adjacent pair of the
\* corrected hours is non-decreasing.
UnwrapMonotoneSingleRollover ==
    /\ (/\ call.fn = "unwrap_rinex"
        /\ Cardinality(RinexDrops(RowsOfHours(call.hours))) <= 1)
            => NonDecreasing(result)
    /\ (/\ call.fn = "unwrap_times"
        /\ Cardinality(TimeDrops(call.hours)) <= 1)
            => NonDecreasing(result)

\* a trajectory with one rollover in the middle has been corrected
UnwrapRolledOver ==
    /\ call.fn = "unwrap_rinex"
    /\ Len(call.hours) = 3
    /\ RinexDrops(RowsOfHours(call.hours)) = {2}
    /\ result = <<call.hours[1], RAdd(call.hours[2], R(24)),
                  RAdd(call.hours[3], R(24))>>

-----------------------------------------------------------------------------
(* Properties of interpolate_coordinates (SpecInterp) *)

Interpolated == call.fn = "interpolate"

InteriorPairs(hour, rows) ==
    {i \in 1..(Len(rows) - 1) : Interior(hour, rows, i)}

\* position k of a trajectory, and a position with the three offsets applied
SamplePos(rows, k) == <<rows[k][EAST].v, rows[k][NORTH].v, rows[k][ELEV].v>>

WithOffsetMm(pos, offset) ==
    <<RAdd(pos[1], Rat(offset[1][1], 1000 * offset[1][2])),
      RAdd(pos[2], Rat(offset[2][1], 1000 * offset[2][2])),
      RSub(pos[3], Rat(offset[3][1], 1000 * offset[3][2]))>>

\* sample + (next - sample) * (hour - time) / (next time - time), per coordinate
LinearAt(hour, rows, i) ==
    [c \in 1..3 |->
        LET a == SamplePos(rows, i)[c]
            b == SamplePos(rows, i + 1)[c]
        IN  RAdd(a, RDiv(RMul(RSub(b, a), RSub(hour, rows[i][HOURS])),
                         RSub(rows[i + 1][HOURS], rows[i][HOURS])))]

\* the midpoint example: two samples (0,0,0) and (10,20,30), zero offset
MidpointCase ==
    /\ Interpolated
    /\ Len(call.rows) = 2
    /\ SamplePos(call.rows, 1) = <<R(0), R(0), R(0)>>
    /\ SamplePos(call.rows, 2) = <<R(10), R(20), R(30)>>
    /\ RLt(call.rows[1][HOURS], call.rows[2][HOURS])
    /\ RMul(R(2), call.hour) = RAdd(call.rows[1][HOURS], call.rows[2][HOURS])
    /\ call.offset = ZeroOffset

\* C3 as stated: for the first pair that brackets the query strictly, the
\* result is the linear blend of the pair (before the offset).
InteriorBlendFirstPair ==
    (Interpolated /\ InteriorPairs(call.hour, call.rows) # {}) =>
        result = Returned(WithOffsetMm(
            LinearAt(call.hour, call.rows,
                     Min(InteriorPairs(call.hour, call.rows))), call.offset))

\* C3 as amended: for the first pair that brackets the query strictly, provided
\* no earlier pair has a lower sample whose time equals the query, the result
\* is the linear blend of the pair (before the offset); the midpoint of
\* (0,0,0) and (10,20,30) with zero offset gives (5,10,15).
InteriorBlendUnlessEarlierExact ==
    /\ (/\ Interpolated
        /\ InteriorPairs(call.hour, call.rows) # {}
        /\ \A j \in 1..(Min(InteriorPairs(call.hour, call.rows)) - 1) :
                ~ExactMatch(call.hour, call.rows, j))
        => result = Returned(WithOffsetMm(
              LinearAt(call.hour, call.rows,
                       Min(InteriorPairs(call.hour, call.rows))), call.offset))
    /\ MidpointCase => result = Returned(<<R(5), R(10), R(15)>>)

\* the midpoint example has been computed
MidpointInterpolated == MidpointCase /\ result.kind = "ok"

\* C4 as stated: a query equal to the time of sample k, k not the last, returns
\* sample k's position with the offset applied.
BoundaryExact ==
    Interpolated =>
        \A k \in 1..(Len(call.rows) - 1) :
            call.hour = call.rows[k][HOURS] =>
                result = Returned(WithOffsetMm(SamplePos(call.rows, k), call.offset))

NoEarlierMatch(hour, rows, k) ==
    \A j \in 1..(k - 1) : ~Interior(hour, rows, j) /\ ~ExactMatch(hour, rows, j)

\* C4 as amended: a query equal to the time of sample k, k not the last,
\* returns sample k's position with the offset applied and no blending,
\* provided no earlier pair brackets the query strictly or has a lower sample
\* at that time; this covers every trajectory with strictly increasing times.
BoundaryExactFirstMatch ==
    Interpolated =>
        \A k \in 1..(Len(call.rows) - 1) :
            /\ (call.hour = call.rows[k][HOURS]
                    /\ NoEarlierMatch(call.hour, call.rows, k))
                => result = Returned(WithOffsetMm(SamplePos(call.rows, k),
                                                  call.offset))
            /\ (call.hour = call.rows[k][HOURS]
                    /\ StrictlyIncreasing(HoursOf(call.rows)))
                => result = Returned(WithOffsetMm(SamplePos(call.rows, k),
                                                  call.offset))

\* a query at the time of an inner sample of an increasing trajectory
InnerBoundaryHit ==
    /\ Interpolated
    /\ Len(call.rows) = 3
    /\ StrictlyIncreasing(HoursOf(call.rows))
    /\ call.hour = call.rows[2][HOURS]
    /\ call.offset # ZeroOffset
    /\ result.kind = "ok"

OutsideSpan(hour, rows) ==
    /\ Len(rows) >= 1
    /\ RLt(hour, rows[1][HOURS]) \/ RLt(rows[Len(rows)][HOURS], hour)

\* C6 as stated: a query before the first sample's time, after the last
\* sample's time, or matched by no pair raises the range error.
OutOfRangeRaises ==
    (Interpolated /\ (OutsideSpan(call.hour, call.rows)
                        \/ Matching(call.hour, call.rows) = {}))
        => result = Raised("ValueError")

\* C6 as amended: a query matched by no pair as interior or lower boundary
\* raises the range error and returns no position; so does every query
\* strictly before the first or strictly after the last sample's time when the
\* trajectory's times are non-decreasing.
OutOfRangeRaisesSorted ==
    /\ (Interpolated /\ Matching(call.hour, call.rows) = {})
        => result = Raised("ValueError")
    /\ (/\ Interpolated
        /\ NonDecreasing(HoursOf(call.rows))
        /\ OutsideSpan(call.hour, call.rows))
        => result = Raised("ValueError")

\* a query after the last sample of an increasing trajectory has raised
QueryAfterLastRaised ==
    /\ Interpolated
    /\ Len(call.rows) >= 2
    /\ StrictlyIncreasing(HoursOf(call.rows))
    /\ RLt(call.rows[Len(call.rows)][HOURS], call.hour)
    /\ result.kind = "ValueError"

\* C7 as stated: with at least two samples a query at the first sample's time
\* returns the first sample's position plus offset, and a query at the last
\* sample's time raises the range error.
FirstLastAsymmetry ==
    (Interpolated /\ Len(call.rows) >= 2) =>
        /\ call.hour = call.rows[1][HOURS]
            => result = Returned(WithOffsetMm(SamplePos(call.rows, 1), call.offset))
        /\ call.hour = call.rows[Len(call.rows)][HOURS]
            => result = Raised("ValueError")

\* C7 as amended: with at least two samples a query at the first sample's time
\* returns the first sample's position plus offset; a query at the last
\* sample's time raises the range error when the times are non-decreasing and
\* the last time is strictly greater than the one before it.
FirstLastAsymmetrySorted ==
    (Interpolated /\ Len(call.rows) >= 2) =>
        /\ call.hour = call.rows[1][HOURS]
            => result = Returned(WithOffsetMm(SamplePos(call.rows, 1), call.offset))
        /\ (/\ call.hour = call.rows[Len(call.rows)][HOURS]
            /\ NonDecreasing(HoursOf(call.rows))
            /\ RLt(call.rows[Len(call.rows) - 1][HOURS],
                   call.rows[Len(call.rows)][HOURS]))
            => result = Raised("ValueError")

\* a query at the last sample's time of an increasing trajectory has raised
QueryAtLastRaised ==
    /\ Interpolated
    /\ Len(call.rows) >= 2
    /\ StrictlyIncreasing(HoursOf(call.rows))
    /\ call.hour = call.rows[Len(call.rows)][HOURS]
    /\ result.kind = "ValueError"

-----------------------------------------------------------------------------
(* Properties of a run (Spec) *)

\* both parsers succeeded and the correlation loop was entered
LoopEntered == pc \in {"loop", "write", "done"} /\ image_times # <<>>

\* the raw time of day of entry j of the capture log
RawCaptureHours(j) ==
    LET s == mrk_file.rows[j].col1.v
    IN  RSub(Rat(s, 3600), R(24 * (s \div 86400)))

\* the trajectory of the .pos file crosses midnight exactly once, at row t
CrossesMidnightAt(t) ==
    LET raw == RinexProcessed(pos_file.rows)
    IN  /\ \A k \in 1..Len(raw) : ~StrRow(raw[k])
        /\ {k \in 2..Len(raw) : RLe(raw[k][HOURS], raw[k - 1][HOURS])} = {t}
        /\ RLt(raw[t][HOURS], raw[t - 1][HOURS])

\* C1: when the trajectory crosses midnight once, every capture entry whose
\* raw time of day lies after midnight within a pair of post-rollover samples
\* gets capture_hours = raw + 24 and is interpolated between that pair,
\* whatever the other entries of the capture log.
RolloverAligned ==
    LoopEntered =>
        \A t \in 2..Len(rinex_data) : \A i \in t..(Len(rinex_data) - 1) :
        \A j \in 1..Len(image_times) :
            (CrossesMidnightAt(t)
                /\ Interior(RAdd(RawCaptureHours(j), R(24)), rinex_data, i))
            => /\ image_times[j] = RAdd(RawCaptureHours(j), R(24))
               /\ interpolate_coordinates(image_times[j], rinex_data, offsets[j])
                    = Returned(WithOffsetMm(
                        LinearAt(RAdd(RawCaptureHours(j), R(24)), rinex_data, i),
                        offsets[j]))

\* the output rows and the unmatched entries of one file
RowsOfFile(f) == {k \in 1..Len(output_data) : output_data[k][1] = f}
UnmatchedOfFile(f) == {k \in 1..Len(unmatched_images) : unmatched_images[k][1] = f}

\* the first entry of the capture log with the id, in file order
FirstEntries(id) ==
    {k \in 1..Len(image_ids) :
        /\ image_ids[k] = Num(R(id))
        /\ \A j \in 1..(k - 1) : image_ids[j] # Num(R(id))}

\* C8: an image whose id occurs in the capture log gets the position
\* interpolated at the capture_hours and offset of the first occurrence and
\* of no other; when that interpolation raises the range error the image is
\* unmatched and has no output row.
FirstOccurrenceWins ==
    \A p \in 1..idx : \A k \in FirstEntries(image_ids_from_files[p]) :
        LET f == valid_image_files[p]
            r == interpolate_coordinates(image_times[k], rinex_data, offsets[k])
        IN  /\ r.kind = "ok" =>
                /\ UnmatchedOfFile(f) = {}
                /\ \E q \in 1..Len(output_data) :
                    /\ RowsOfFile(f) = {q}
                    /\ output_data[q] = <<f, r.pos[1], r.pos[2], r.pos[3]>>
            /\ r.kind = "ValueError" =>
                RowsOfFile(f) = {} /\ UnmatchedOfFile(f) # {}

\* an image was looked up in a log that holds its id twice, the first entry
\* out of range and the second within range, and stayed unmatched
SecondOccurrenceIgnored ==
    /\ pc = "done"
    /\ \E p \in 1..idx :
        LET id == image_ids_from_files[p]
        IN  /\ Cardinality(Occurrences(image_ids, id)) = 2
            /\ \A k \in FirstEntries(id) :
                interpolate_coordinates(image_times[k], rinex_data, offsets[k]).kind
                    = "ValueError"
            /\ \E k \in Occurrences(image_ids, id) :
                interpolate_coordinates(image_times[k], rinex_data, offsets[k]).kind
                    = "ok"
            /\ UnmatchedOfFile(valid_image_files[p]) # {}

\* C9: once the loop is entered it visits every image with an extractable id,
\* and the run ends with a return value and not with an exception raised
\* while one image was processed.
BatchNeverAborts ==
    (LoopEntered /\ pc = "done") =>
        idx = Len(valid_image_files) /\ ret \in {"True", "False"}

\* the reason an unmatched entry carries: none when its second component is
\* the image id
ReasonOf(entry) == IF entry[2] \in Int THEN "" ELSE entry[2]

\* C10: an unmatched image is recorded with the reason of its failure, "no
\* capture entry" when its id is absent from the capture log and "time
\* outside trajectory range" when the interpolation raised the range error.
UnmatchedCarryReason ==
    \A q \in 1..Len(unmatched_images) :
        LET id == extract_image_id_from_filename(unmatched_images[q][1]).v
        IN  ReasonOf(unmatched_images[q]) =
                IF Occurrences(image_ids, id) = {} THEN "no capture entry"
                ELSE "time outside trajectory range"

-----------------------------------------------------------------------------
(* Output order (Spec) *)

\* the position of a file in the directory listing
PlaceInListing(f) == CHOOSE k \in 1..Len(image_files) : image_files[k] = f

\* C11: the output rows follow the order of the input image list: every row
\* is a row of a listed image, rows of two images stand in the order of the
\* two images in the listing, and no image has two rows; the file written is
\* that sequence of rows.
OutputOrdered ==
    /\ \A a \in 1..Len(output_data) :
        /\ Len(output_data[a]) = 4
        /\ \E k \in 1..Len(image_files) : image_files[k] = output_data[a][1]
    /\ \A a, b \in 1..Len(output_data) :
        a < b => PlaceInListing(output_data[a][1]) < PlaceInListing(output_data[b][1])
    /\ written.ok => written = Written(output_data)

\* two images were matched, listed with the higher id first
TwoRowsInListingOrder ==
    /\ pc = "done"
    /\ Len(output_data) = 2
    /\ written = Written(output_data)
    /\ output_data[1][1] = image_files[1]
    /\ output_data[2][1] = image_files[2]
    /\ extract_image_id_from_filename(image_files[1]).v
            > extract_image_id_from_filename(image_files[2]).v

-----------------------------------------------------------------------------
(* Identifier extraction (SpecExtract) *)

\* the text of a token up to its first "."
BeforeDot(tok) ==
    IF \E k \in 1..Len(tok) : tok[k] = "."
    THEN SubSeq(tok, 1, (CHOOSE k \in 1..Len(tok) :
                            tok[k] = "." /\ \A j \in 1..(k - 1) : tok[j] # ".") - 1)
    ELSE tok

\* seg[i..j] is a run of digits, with at most one sign right before it and
\* nothing but blanks around
NumeralAt(seg, i, j) ==
    /\ i <= j
    /\ \A k \in i..j : IsDigit(seg[k])
    /\ \A k \in 1..(i - 1) : seg[k] = " " \/ (k = i - 1 /\ seg[k] \in {"+", "-"})
    /\ \A k \in (j + 1)..Len(seg) : seg[k] = " "

IsNumeral(seg) == \E i, j \in 1..Len(seg) : NumeralAt(seg, i, j)

RECURSIVE Pow10(_)
Pow10(n) == IF n = 0 THEN 1 ELSE 10 * Pow10(n - 1)

RECURSIVE PlaceSum(_, _, _)
PlaceSum(seg, i, j) ==
    IF i > j THEN 0
    ELSE DigitValue(seg[i]) * Pow10(j - i) + PlaceSum(seg, i + 1, j)

NumeralValue(seg) ==
    LET i == CHOOSE a \in 1..Len(seg) : \E b \in 1..Len(seg) : NumeralAt(seg, a, b)
        j == CHOOSE b \in 1..Len(seg) : NumeralAt(seg, i, b)
    IN  IF i > 1 /\ seg[i - 1] = "-" THEN 0 - PlaceSum(seg, i, j)
        ELSE PlaceSum(seg, i, j)

DJI_0001_0042_JPG ==
    <<"D", "J", "I", "_", "0", "0", "0", "1", "_",
      "0", "0", "4", "2", ".", "J", "P", "G">>

badname_jpg == <<"b", "a", "d", "n", "a", "m", "e", ".", "j", "p", "g">>

\* C12: the id of a filename is the integer written in the third "_"-token
\* up to its first "."; a filename with fewer than three tokens, or whose
\* segment is no integer, gives None; the call always returns (a value or
\* None). "DJI_0001_0042.JPG" gives 42 and "badname.jpg" gives None.
ExtractionRule ==
    call.fn = "extract" =>
        /\ result \in {None} \cup {Some(n) : n \in -9999..9999}
        /\ Len(call.tokens) < 3 => result = None
        /\ Len(call.tokens) >= 3 =>
            LET seg == BeforeDot(call.tokens[3])
            IN  result = IF IsNumeral(seg) THEN Some(NumeralValue(seg)) ELSE None
        /\ call.filename = DJI_0001_0042_JPG => result = Some(42)
        /\ call.filename = badname_jpg => result = None

\* the id 42 was read from DJI_0001_0042.JPG
ExtractedFortyTwo ==
    /\ call.fn = "extract"
    /\ call.filename = DJI_0001_0042_JPG
    /\ result = Some(42)

-----------------------------------------------------------------------------
(* Files without an id (Spec) *)

\* the id written in a filename, if any
NamedId(f) ==
    LET tokens == Split(f, "_")
    IN  IF Len(tokens) >= 3 /\ IsNumeral(BeforeDot(tokens[3]))
        THEN Some(NumeralValue(BeforeDot(tokens[3])))
        ELSE None

Unextractable(f) == ~NamedId(f).some

\* the listing with one file taken out
Without(files, f) == SelectSeq(files, LAMBDA g : g # f)

\* the rows of the files of a listing, one file after the other, up to the
\* first exception that is not caught
RECURSIVE RowsOfListing(_, _, _, _)
RowsOfListing(files, traj, log, rows) ==
    IF files = <<>> THEN rows
    ELSE LET f == files[1]
             hits == {k \in 1..Len(log[2]) : log[2][k] = Num(R(NamedId(f).v))}
             got == IF hits = {} THEN Raised("ValueError")
                    ELSE interpolate_coordinates(log[1][Min(hits)], traj,
                                                 log[3][Min(hits)])
         IN  IF Unextractable(f) THEN RowsOfListing(Tail(files), traj, log, rows)
             ELSE IF got.kind = "ok"
             THEN RowsOfListing(Tail(files), traj, log,
                        Append(rows, <<f, got.pos[1], got.pos[2], got.pos[3]>>))
             ELSE IF got.kind = "ValueError"
             THEN RowsOfListing(Tail(files), traj, log, rows)
             ELSE rows

\* the rows a run on this listing and the two files of the state collects
RunRows(files) ==
    IF \A k \in 1..Len(files) : Unextractable(files[k]) THEN <<>>
    ELSE IF pos_file = NoFile \/ mrk_file = NoFile THEN <<>>
    ELSE IF process_rinex_data(pos_file.rows) = <<>> THEN <<>>
    ELSE IF process_timestamp_data(mrk_file.rows)[1] = <<>> THEN <<>>
    ELSE RowsOfListing(files, process_rinex_data(pos_file.rows),
                       process_timestamp_data(mrk_file.rows), <<>>)

\* C13: a file whose id cannot be extracted is set aside: it has no output
\* row, it is not among the files looked up in the capture log (so it is not
\* among the unmatched ones either), and the rows of the finished run are
\* the rows of the run on the listing without that file.
UnextractableSetAside ==
    \A k \in 1..Len(image_files) :
        Unextractable(image_files[k]) =>
            /\ RowsOfFile(image_files[k]) = {}
            /\ UnmatchedOfFile(image_files[k]) = {}
            /\ \A j \in 1..Len(valid_image_files) :
                    valid_image_files[j] # image_files[k]
            /\ pc = "done" => output_data = RunRows(Without(image_files, image_files[k]))

\* a file without an id was listed before a file that was matched
MatchedBesideUnextractable ==
    /\ pc = "done"
    /\ ret = "True"
    /\ Len(image_files) = 2
    /\ Unextractable(image_files[1])
    /\ invalid_files = <<image_files[1]>>
    /\ Len(output_data) = 1
    /\ output_data[1][1] = image_files[2]

-----------------------------------------------------------------------------
(* Rows that fail to parse (Spec) *)

\* a row of the .pos file on which lines 72-77 raise
PosRowRaises(row) ==
    \/ Len(row.hms) # 3
    \/ \E k \in 1..Len(row.hms) : ~row.hms[k].num

\* a row of the .MRK file on which lines 120-137 raise
MrkRowRaises(row) ==
    ~row.col1.num \/ ~row.col3.num \/ ~row.col4.num \/ ~row.col5.num

NothingCorrelated ==
    /\ idx = 0
    /\ output_data = <<>>
    /\ unmatched_images = <<>>
    /\ matched_count = 0
    /\ written = NotWritten
    /\ ret \in {"none", "False"}
    /\ pc = "done" => ret = "False"

\* C14: a row on which a parser raises makes that parser return nothing, not
\* even the rows before it, and the run ends with False at that parser: no
\* image is correlated and nothing is written.
ParseFailureFatal ==
    /\ (pos_file.exists /\ \E k \in 1..Len(pos_file.rows) : PosRowRaises(pos_file.rows[k]))
        => /\ rinex_data = <<>>
           /\ pc \in {"ids", "rinex", "done"}
           /\ NothingCorrelated
    /\ (mrk_file.exists /\ \E k \in 1..Len(mrk_file.rows) : MrkRowRaises(mrk_file.rows[k]))
        => /\ image_times = <<>> /\ image_ids = <<>> /\ offsets = <<>>
           /\ pc \in {"ids", "rinex", "mrk", "done"}
           /\ NothingCorrelated

\* the run ended at a .pos file whose last row, after good ones, raises
AbortedAtBadLastRow ==
    /\ pc = "done"
    /\ ret = "False"
    /\ valid_image_files # <<>>
    /\ Len(pos_file.rows) >= 2
    /\ PosRowRaises(pos_file.rows[Len(pos_file.rows)])
    /\ \A k \in 1..(Len(pos_file.rows) - 1) : ~PosRowRaises(pos_file.rows[k])
    /\ mrk_file.exists
    /\ rinex_data = <<>>

-----------------------------------------------------------------------------
(* Numeric columns of the trajectory (Spec) *)

\* a row of the .pos file whose east, north or elevation field is no number
PositionFieldBad(row) == ~row.east.num \/ ~row.north.num \/ ~row.elev.num

\* C15: a .pos row whose east, north or elevation is no number fails the
\* whole parse, so the trajectory the parser returned holds numbers only in
\* these three columns.
TrajectoryColumnsNumeric ==
    /\ \A k \in 1..Len(rinex_data) :
        ~rinex_data[k][EAST].s /\ ~rinex_data[k][NORTH].s /\ ~rinex_data[k][ELEV].s
    /\ (/\ pos_file.exists
        /\ \E k \in 1..Len(pos_file.rows) : PositionFieldBad(pos_file.rows[k])
        /\ pc \in {"mrk", "loop", "write", "done"})
            => rinex_data = <<>>

-----------------------------------------------------------------------------
(* Outcome of the run (Spec) *)

\* an input file is missing, or a parser has no row or raises on a row
FatalInput ==
    \/ ~pos_file.exists
    \/ ~mrk_file.exists
    \/ pos_file.rows = <<>>
    \/ mrk_file.rows = <<>>
    \/ \E k \in 1..Len(pos_file.rows) : PosRowRaises(pos_file.rows[k])
    \/ \E k \in 1..Len(mrk_file.rows) : MrkRowRaises(mrk_file.rows[k])

\* C16: the finished run reports success (True, exit code 0) exactly when an
\* image was matched, no input was missing or failed to parse, and the
\* write succeeded; with a match the write is always tried, whatever the
\* unmatched images, and a write that fails makes the run fail.
RunOutcome ==
    pc = "done" =>
        /\ ret = "True" <=>
            (/\ matched_count >= 1
             /\ ~FatalInput
             /\ written = Written(output_data))
        /\ ExitCode(ret) = 0 <=> ret = "True"
        /\ matched_count >= 1 => written # NotWritten
        /\ written = WriteFailed => matched_count >= 1 /\ ret = "False"
        /\ matched_count = Len(output_data)

\* a run with one image matched and one unmatched succeeded
SucceededWithUnmatched ==
    /\ pc = "done"
    /\ ret = "True"
    /\ matched_count = 1
    /\ Len(unmatched_images) = 1
    /\ written = Written(output_data)

-----------------------------------------------------------------------------
(* Accounting of the images (Spec) *)

InvalidOfFile(f) == {k \in 1..Len(invalid_files) : invalid_files[k] = f}

\* the entries of the capture log that hold the id of a file
EntriesOfFile(f) ==
    {k \in 1..Len(image_ids) : image_ids[k] = Num(R(NamedId(f).v))}

\* an hour at a sample that has a successor, or strictly inside a pair of
\* successive samples
Bracketed(hour) ==
    \E i \in 1..(Len(rinex_data) - 1) :
        \/ rinex_data[i][HOURS] = hour
        \/ RLt(rinex_data[i][HOURS], hour) /\ RLt(hour, rinex_data[i + 1][HOURS])

\* C18: when the loop over the images has been reached and the run is over,
\* every listed image is in exactly one of the output rows, the files
\* without id and the unmatched images, and it has an output row exactly
\* when its id is extractable, occurs in the capture log, and the time of
\* the first entry with that id is bracketed by the trajectory.
EveryImageAccounted ==
    (LoopEntered /\ pc = "done") =>
        \A k \in 1..Len(image_files) :
            LET f == image_files[k]
            IN  /\ Cardinality(RowsOfFile(f)) + Cardinality(InvalidOfFile(f))
                        + Cardinality(UnmatchedOfFile(f)) = 1
                /\ RowsOfFile(f) # {} <=>
                    (/\ NamedId(f).some
                     /\ EntriesOfFile(f) # {}
                     /\ Bracketed(image_times[Min(EntriesOfFile(f))]))

-----------------------------------------------------------------------------
(* The tables during the loop (Spec) *)

\* C19: the loop over the images is entered with the trajectory and the
\* three sequences of the capture log that the two parsers returned for the
\* files, and no step from then on (an image of the loop, the end of the
\* loop, the write) changes any of the four.
TablesAsParsed ==
    [][/\ (pc = "mrk" /\ pc' = "loop") =>
            /\ rinex_data' = process_rinex_data(pos_file.rows)
            /\ <<image_times', image_ids', offsets'>>
                    = process_timestamp_data(mrk_file.rows)
       /\ pc \in {"loop", "write"} =>
            UNCHANGED <<rinex_data, image_times, image_ids, offsets>>]_vars

\* two images were looked up in a log of two entries, one was matched
TwoImagesLookedUp ==
    /\ pc = "done"
    /\ idx = 2
    /\ matched_count >= 1
    /\ Len(image_ids) = 2
    /\ Len(rinex_data) >= 2
    /\ <<image_times, image_ids, offsets>> = process_timestamp_data(mrk_file.rows)

-----------------------------------------------------------------------------
(* The unwrap of the trajectory (SpecRinex) *)

\* the seconds of the day written in the HH:MM:SS field of a .pos row
SecondsOfDay(row) == row.hms[1].v * 3600 + row.hms[2].v * 60 + row.hms[3].v

\* the first row (1-based, from the second on) whose time of day is not
\* after that of the row before it, or 0
FirstNotAfter(rows) ==
    IF \E t \in 2..Len(rows) : SecondsOfDay(rows[t]) <= SecondsOfDay(rows[t - 1])
    THEN CHOOSE t \in 2..Len(rows) :
            /\ SecondsOfDay(rows[t]) <= SecondsOfDay(rows[t - 1])
            /\ \A u \in 2..(t - 1) : SecondsOfDay(rows[u]) > SecondsOfDay(rows[u - 1])
    ELSE 0

\* C20: the trajectory returned for a .pos file has one sample per row, in
\* the order of the rows, with the seconds, east, north and elevation of its
\* row; its hours are the hours of the row, plus 24 exactly for the samples
\* from the first row on whose time is not after that of the row before it
\* (a later such row adds nothing more), and for no sample if there is no
\* such row.
TrajectoryUnwrapRule ==
    (call.fn = "process_rinex" /\ result # <<>>) =>
        LET rows == call.file.rows
            t == FirstNotAfter(rows)
        IN  /\ Len(result) = Len(rows)
            /\ \A k \in 1..Len(rows) :
                /\ Len(result[k]) = 5
                /\ result[k][1] = R(SecondsOfDay(rows[k]))
                /\ result[k][EAST].v = R(rows[k].east.v)
                /\ result[k][NORTH].v = R(rows[k].north.v)
                /\ result[k][ELEV].v = R(rows[k].elev.v)
                /\ result[k][HOURS] =
                    IF t # 0 /\ k >= t
                    THEN Rat(SecondsOfDay(rows[k]) + 24 * 3600, 3600)
                    ELSE Rat(SecondsOfDay(rows[k]), 3600)

\* a trajectory of three samples whose second repeats the time of the first:
\* 24 was added from the second sample on, once
EqualTimesUnwrapped ==
    /\ call.fn = "process_rinex"
    /\ Len(result) = 3
    /\ SecondsOfDay(call.file.rows[1]) = SecondsOfDay(call.file.rows[2])
    /\ SecondsOfDay(call.file.rows[3]) < SecondsOfDay(call.file.rows[2])
    /\ result[1][HOURS] = Rat(SecondsOfDay(call.file.rows[1]), 3600)
    /\ result[2][HOURS] = RAdd(result[1][HOURS], R(24))
    /\ RLt(result[3][HOURS], result[2][HOURS])

-----------------------------------------------------------------------------
(* The unwrap of the capture log against the trajectory rule (SpecUnwrap) *)

\* the trajectory rule on a sequence of hours: 24 is added from the first
\* index on whose hour is not after the hour before it
RuleNotAfter(hours) ==
    LET hit == {t \in 2..Len(hours) : RLe(hours[t], hours[t - 1])}
    IN  [k \in 1..Len(hours) |->
            IF \E u \in hit : u <= k
            THEN RAdd(hours[k], R(24))
            ELSE hours[k]]

\* C21: the unwrap of process_timestamp_data gives, for every sequence of
\* hours of the day, the sequence that the trajectory rule gives on it, equal
\* adjacent hours included.
CaptureUnwrapIsTrajectoryRule ==
    call.fn = "unwrap_times" => result = RuleNotAfter(call.hours)

-----------------------------------------------------------------------------
(* The time of day of a capture (SpecTime) *)

\* the largest integer not above a rational
FloorOf(x) == x[1] \div x[2]

\* seconds/3600 - floor(seconds/3600/24)*24
HoursOfDay(seconds) ==
    RSub(Rat(seconds, 3600), R(FloorOf(Rat(seconds, 3600 * 24)) * 24))

-----------------------------------------------------------------------------
(* The parsers run before the interpolation (Spec) *)

\* C23: no parser is called twice; the capture log is parsed only after the
\* trajectory was parsed with success; interpolate_coordinates is called only
\* after each parser was called once and returned rows, so that a run with a
\* failed parse never calls it.
ParsedBeforeInterpolation ==
    /\ calls.rinex <= 1
    /\ calls.mrk <= 1
    /\ calls.mrk = 1 => (calls.rinex = 1 /\ rinex_data # <<>>)
    /\ calls.interp >= 1 =>
        /\ calls.rinex = 1 /\ calls.mrk = 1
        /\ rinex_data # <<>> /\ image_times # <<>>
        /\ ~FatalInput
    /\ calls.interp <= idx + 1

\* two images were interpolated after one call of each parser
InterpolatedTwiceAfterParsing ==
    /\ pc = "done"
    /\ calls = [rinex |-> 1, mrk |-> 1, interp |-> 2]
    /\ matched_count = 2

-----------------------------------------------------------------------------
(* The linear scan against a binary search (SpecInterp) *)

\* bisection on samples lo+1..hi: the number of samples whose time is not
\* after the hour, for times in non-decreasing order
RECURSIVE BisectRight(_, _, _, _)
BisectRight(hour, rows, lo, hi) ==
    IF lo >= hi THEN lo
    ELSE LET mid == (lo + hi) \div 2
         IN  IF RLt(hour, rows[mid + 1][HOURS])
             THEN BisectRight(hour, rows, lo, mid)
             ELSE BisectRight(hour, rows, mid + 1, hi)

\* the pair k, k+1 with time[k] <= hour < time[k+1] found by bisection, then
\* the blend and the offset; the range error if there is no such pair
BinarySearchOutcome(hour, rows, offset) ==
    LET k == BisectRight(hour, rows, 0, Len(rows))
    IN  IF k = 0 \/ k >= Len(rows) THEN Raised("ValueError")
        ELSE Returned(WithOffsetMm(LinearAt(hour, rows, k), offset))

\* C24 as stated: on a trajectory with non-decreasing times the linear scan
\* and the binary search have the same outcome.
ScanIsBinarySearchSorted ==
    (Interpolated /\ NonDecreasing(HoursOf(call.rows))) =>
        result = BinarySearchOutcome(call.hour, call.rows, call.offset)

\* C24: on a trajectory with strictly increasing times the linear scan and
\* the binary search have the same outcome, position or range error.
ScanIsBinarySearchStrict ==
    (Interpolated /\ StrictlyIncreasing(HoursOf(call.rows))) =>
        result = BinarySearchOutcome(call.hour, call.rows, call.offset)

\* a query inside the last pair of a strictly increasing trajectory of four
\* samples was interpolated
LastPairOfFourInterpolated ==
    /\ Interpolated
    /\ Len(call.rows) = 4
    /\ StrictlyIncreasing(HoursOf(call.rows))
    /\ Interior(call.hour, call.rows, 3)
    /\ result.kind = "ok"

-----------------------------------------------------------------------------
(* Trajectories too short to interpolate (Spec) *)

\* C25: with a trajectory of one sample every call of
\* interpolate_coordinates raises the range error, also for a capture at the
\* time of that sample: every image with an id ends unmatched and the run
\* fails without a row; with no sample at all, or with an empty capture log,
\* the run fails before it correlates an image.
TrajectoryTooShort ==
    /\ Len(rinex_data) <= 1 =>
        /\ output_data = <<>> /\ matched_count = 0
        /\ written = NotWritten
        /\ ret \in {"none", "False"}
    /\ (Len(rinex_data) = 1 /\ LoopEntered) =>
        /\ Len(unmatched_images) = idx
        /\ pc = "done" => idx = Len(valid_image_files)
    /\ (pos_file.exists /\ pos_file.rows = <<>>) =>
        (pc \in {"ids", "rinex", "done"} /\ calls.interp = 0 /\ NothingCorrelated)
    /\ (mrk_file.exists /\ mrk_file.rows = <<>>) =>
        (pc \in {"ids", "rinex", "mrk", "done"} /\ calls.interp = 0 /\ NothingCorrelated)

\* an image captured at the time of the only sample ended unmatched
CaptureAtOnlySampleUnmatched ==
    /\ pc = "done"
    /\ Len(rinex_data) = 1
    /\ Len(unmatched_images) = 1
    /\ calls.interp = 1
    /\ \E k \in 1..Len(image_ids) :
        /\ image_ids[k] = Num(R(unmatched_images[1][2]))
        /\ \A j \in 1..(k - 1) : image_ids[j] # image_ids[k]
        /\ image_times[k] = rinex_data[1][HOURS]

-----------------------------------------------------------------------------
(* The offsets from the capture log to the output (Spec) *)

\* the position on the trajectory at the time of entry k, before the offsets
BasePosition(k) ==
    interpolate_coordinates(image_times[k], rinex_data, ZeroOffset).pos

\* C26: in a run that went through the loop and ended, the three sequences
\* of the capture log have one entry per row, in
\* the order of the rows: the id of column 0, the time of day of column 1
\* (with 24 added or not), and the offsets (column 4, column 3, column 5);
\* the row written for an image is the position on the trajectory at the
\* time of the first entry with its id, plus column 4 of that entry over 1000
\* in east, plus column 3 over 1000 in north, and minus column 5 over 1000 in
\* elevation.
OffsetsWired ==
    (LoopEntered /\ pc = "done") =>
        /\ Len(image_times) = Len(mrk_file.rows)
        /\ Len(image_ids) = Len(mrk_file.rows)
        /\ Len(offsets) = Len(mrk_file.rows)
        /\ \A i \in 1..Len(mrk_file.rows) :
            LET row == mrk_file.rows[i]
            IN  /\ image_ids[i].v = R(row.col0.v)
                /\ image_times[i] \in {HoursOfDay(row.col1.v),
                                       RAdd(HoursOfDay(row.col1.v), R(24))}
                /\ offsets[i] = <<R(row.col4.v), R(row.col3.v), R(row.col5.v)>>
        /\ \A a \in 1..Len(output_data) :
            LET k == Min(EntriesOfFile(output_data[a][1]))
                row == mrk_file.rows[k]
                base == BasePosition(k)
            IN  /\ output_data[a][2] = RAdd(base[1], Rat(row.col4.v, 1000))
                /\ output_data[a][3] = RAdd(base[2], Rat(row.col3.v, 1000))
                /\ output_data[a][4] = RSub(base[3], Rat(row.col5.v, 1000))

\* a row was written from an entry with the offsets 1000 (column 4),
\* 2000 (column 3) and 3000 (column 5)
RowWithThreeOffsets ==
    /\ pc = "done"
    /\ Len(output_data) >= 1
    /\ LET k == Min(EntriesOfFile(output_data[1][1]))
       IN  /\ mrk_file.rows[k].col4.v = 1000
           /\ mrk_file.rows[k].col3.v = 2000
           /\ mrk_file.rows[k].col5.v = 3000
           /\ output_data[1][2] = RAdd(BasePosition(k)[1], R(1))
           /\ output_data[1][3] = RAdd(BasePosition(k)[2], R(2))
           /\ output_data[1][4] = RSub(BasePosition(k)[3], R(3))

-----------------------------------------------------------------------------
(* The interior branch stays inside its pair (SpecInterp) *)

\* x lies between a and b, ends included, whichever of the two is larger
Between(x, a, b) ==
    \/ RLe(a, x) /\ RLe(x, b)
    \/ RLe(b, x) /\ RLe(x, a)

\* C27: when the scan returns by the interior branch of a pair, the time of
\* the upper sample is strictly after that of the lower one, the weight is
\* strictly between 0 and 1, and with a zero offset each coordinate returned
\* lies between the coordinates of the two samples; equal adjacent times are
\* never divided by.
InteriorInsideBracket ==
    (Interpolated /\ Matching(call.hour, call.rows) # {}) =>
        LET i == Min(Matching(call.hour, call.rows))
            lower == call.rows[i][HOURS]
            upper == call.rows[i + 1][HOURS]
        IN  /\ lower = upper => ~Interior(call.hour, call.rows, i)
            /\ Interior(call.hour, call.rows, i) =>
                /\ RLt(R(0), RSub(upper, lower))
                /\ RLt(R(0), RSub(call.hour, lower))
                /\ RLt(RSub(call.hour, lower), RSub(upper, lower))
                /\ result.kind = "ok"
                /\ call.offset = ZeroOffset =>
                    \A c \in 1..3 :
                        Between(result.pos[c], SamplePos(call.rows, i)[c],
                                SamplePos(call.rows, i + 1)[c])

\* a query inside the first pair of a trajectory whose second and third
\* samples have the same time
InteriorBesideEqualTimes ==
    /\ Interpolated
    /\ Len(call.rows) = 3
    /\ call.rows[2][HOURS] = call.rows[3][HOURS]
    /\ Interior(call.hour, call.rows, 1)
    /\ call.offset = ZeroOffset
    /\ result.kind = "ok"
    /\ RLt(R(0), result.pos[1]) /\ RLt(result.pos[1], R(10))

-----------------------------------------------------------------------------
(* No write without a match (Spec) *)

\* C28: the write of Camera_coords.txt is tried only with at least one row
\* of a matched image; a run that ended with no image, no file with an id, a
\* missing or unparsable input file, or no match, returned failure and never
\* tried the write.
NoWriteWithoutMatch ==
    /\ written.tried => (matched_count >= 1 /\ output_data # <<>>)
    /\ pc = "write" => (matched_count >= 1 /\ output_data # <<>>)
    /\ (/\ pc = "done"
        /\ \/ image_files = <<>>
           \/ valid_image_files = <<>>
           \/ FatalInput
           \/ matched_count = 0)
        => (ret # "True" /\ ~written.tried)

\* every image was looked up and none matched: the run failed, nothing was
\* written
FailedWithZeroMatches ==
    /\ pc = "done"
    /\ LoopEntered
    /\ idx = 2
    /\ Len(unmatched_images) = 2
    /\ matched_count = 0
    /\ ret = "False"
    /\ written = NotWritten

-----------------------------------------------------------------------------
(* The legacy scan against interpolate_coordinates (SpecLegacy) *)

\* what the legacy scan does for capture entry j
LegacyOf(mode, j) ==
    LegacyScan(mode, call.ImageTime[j], call.Rinex, call.Offset[j])

\* what interpolate_coordinates does for capture entry j
NewOf(mode, j) ==
    InterpolateIn(mode, call.ImageTime[j], call.Rinex, call.Offset[j])

\* the same pair and the same branch, and no position exactly when
\* interpolate_coordinates raises the range error
SameSelection(j) ==
    LET legacy == LegacyOf("float", j)
        hits == Matching(call.ImageTime[j], call.Rinex)
    IN  /\ legacy.branch = "none" <=>
               interpolate_coordinates(call.ImageTime[j], call.Rinex,
                                       call.Offset[j]).kind = "ValueError"
        /\ legacy.branch # "none" =>
               /\ legacy.pair = Min(hits)
               /\ legacy.branch = "interior" <=>
                      Interior(call.ImageTime[j], call.Rinex, legacy.pair)

\* C29 as stated: for every capture entry done, the legacy scan and
\* interpolate_coordinates select the same pair and branch and compute the
\* same east, north and elevation, and the legacy scan appends nothing
\* exactly when interpolate_coordinates raises the range error.
ScansComputeTheSame ==
    \A j \in 1..result.j :
        /\ SameSelection(j)
        /\ LegacyOf("float", j).branch # "none" =>
               LegacyOf("float", j).pos = NewOf("float", j).pos

\* C29, amended: the two select the same pair and branch, and the legacy scan
\* appends nothing exactly when interpolate_coordinates raises the range
\* error; at the exact lower boundary the floats computed are the same; in
\* the interior of a pair the two formulas are equal in exact arithmetic.
ScansAgreeUpToRounding ==
    \A j \in 1..result.j :
        /\ SameSelection(j)
        /\ LegacyOf("float", j).branch = "exact" =>
               LegacyOf("float", j).pos = NewOf("float", j).pos
        /\ LegacyOf("float", j).branch = "interior" =>
               LegacyOf("exact", j).pos =
                   interpolate_coordinates(call.ImageTime[j], call.Rinex,
                                           call.Offset[j]).pos

\* one capture entry in the interior of a pair, where the floats of the two
\* formulas differ, and one at a lower boundary
InteriorRoundedApart ==
    /\ result.j = 2
    /\ Len(result.East) = 2
    /\ LegacyOf("float", 1).branch = "interior"
    /\ result.East[1] # NewOf("float", 1).pos[1]
    /\ LegacyOf("float", 2).branch = "exact"
    /\ result.East[2] = NewOf("float", 2).pos[1]

-----------------------------------------------------------------------------
(* The position lists of the legacy script against its capture log         *)
(* (SpecLegacy)                                                            *)

=============================================================================
